---- MODULE Spec2Model ----
(***************************************************************************)
(* Model of the decision engine of dicewars/ai/xsklen12/ai.py: the turn    *)
(* generator (__get_possible_turns, __request_transfer_from_area,          *)
(* __get_transfer_probability), the simulation step (__simulate_command),  *)
(* the heuristic evaluator (__get_players_heuristics), the Max^n search    *)
(* (__max_n, as an explicit call stack sharing one rotation deque) and the *)
(* entry point (ai_turn, __perform_command).                               *)
(*                                                                         *)
(* A board is a function  area name -> [owner, dice]; the adjacency of the *)
(* areas is the variable adj.  Probabilities are integers, in 1/10^8.       *)
(***************************************************************************)
EXTENDS Integers, Sequences, FiniteSets

VARIABLES
    adj,                \* area name -> set of adjacent area names
    board,              \* the host's board, handed to ai_turn
    board_before,       \* history: the host's board when ai_turn was called
    player_name,        \* self.player_name
    players_order,      \* self.players_order
    max_transfers,      \* self.max_transfers
    transfer_count,     \* self.transfer_count
    transfer_count_this_turn,  \* self.transfer_count_this_turn
    players_names,      \* the rotation deque shared by every __max_n call
    stack,              \* the __max_n call stack, innermost call last
    ret,                \* the value the last finished __max_n call returned
    pc,                 \* position of ai_turn
    command,            \* the command ai_turn returned
    gen,                \* history: the last call of the turn generator
    sim                 \* history: the last call of __simulate_command

vars == <<adj, board, board_before, player_name, players_order, max_transfers,
          transfer_count, transfer_count_this_turn, players_names, stack, ret,
          pc, command, gen, sim>>

----------------------------------------------------------------------------
(* Program constants (class attributes of AI); probabilities in 1/10^8.    *)

MAX_DICE == 8
MAX_N_TURNS_LIMIT == 5
MAX_N_TOTAL_TURNS_LIMIT == 1000
MAX_N_TIME_THRESHOLD == 1
MAX_N_DEPTH == 5
MAX_N_ITERATIONS == 1
LARGEST_REGION_HEURISTIC_WEIGHT == 50
REGION_HEURISTIC_WEIGHT == 5
ATTACK_PROBABILITY_THRESHOLD == 20000000
ATTACK_FROM_LARGEST_REGION_WEIGHT == 3
ATTACK_PLAYERS_LIMIT_2 == 2
ATTACK_PROBABILITY_THRESHOLD_2 == 40000000
ATTACK_FROM_LARGEST_REGION_WEIGHT_2 == 2
TRANSFER_PROBABILITY_THRESHOLD == 30000000
BATTLE_COMMAND == 1
TRANSFER_COMMAND == 2

\* The unit of the probabilities: ONE stands for the float 1.0, so a
\* probability is a whole number of 1/10^8.
HALF == 10000
ONE == HALF * HALF

----------------------------------------------------------------------------
(* Small helpers.                                                          *)

Min(a, b) == IF a <= b THEN a ELSE b
Max(a, b) == IF a >= b THEN a ELSE b

SetMax(S) == CHOOSE x \in S : \A y \in S : y <= x
SetMin(S) == CHOOSE x \in S : \A y \in S : x <= y

RECURSIVE SetToSeq(_)
\* The elements of a finite set of integers in ascending order.
SetToSeq(S) == IF S = {} THEN <<>>
               ELSE <<SetMin(S)>> \o SetToSeq(S \ {SetMin(S)})

SeqToSet(s) == {s[i] : i \in 1..Len(s)}

RECURSIVE SumOver(_, _)
SumOver(f, S) == IF S = {} THEN 0
                 ELSE LET x == CHOOSE y \in S : TRUE
                      IN f[x] + SumOver(f, S \ {x})

\* The product of two probabilities, (p * q) \div ONE, computed in parts
\* that stay below 2^31.
Mul(p, q) ==
    LET ph == p \div HALF
        pl == p % HALF
        qh == q \div HALF
        ql == q % HALF
    IN ph * qh + (ph * ql + pl * qh + (pl * ql) \div HALF) \div HALF

----------------------------------------------------------------------------
(* The board (dicewars.client.game.board), as the spec describes it.       *)

Areas(b) == DOMAIN b

\* board.get_player_areas: the player's areas, in board order.
GetPlayerAreas(b, player) == SetToSeq({a \in Areas(b) : b[a].owner = player})

\* area.get_adjacent_areas_names, in order.
GetAdjacentAreasNames(a) == SetToSeq(adj[a])

\* board.is_at_border: some adjacent area has another owner.
IsAtBorder(b, a) == \E n \in adj[a] : b[n].owner # b[a].owner

\* board.get_player_border: the player's areas adjacent to an enemy.
GetPlayerBorder(b, player) ==
    SetToSeq({a \in Areas(b) : b[a].owner = player /\ IsAtBorder(b, a)})

\* board.get_player_dice: the player's dice in total.
GetPlayerDice(b, player) ==
    SumOver([a \in Areas(b) |-> b[a].dice], {a \in Areas(b) : b[a].owner = player})

\* board.nb_players_alive: the number of distinct owners.
NbPlayersAlive(b) == Cardinality({b[a].owner : a \in Areas(b)})

RECURSIVE Reach(_, _, _)
\* The areas of `own` connected to `seen` through areas of `own`.
Reach(own, seen, frontier) ==
    IF frontier = {} THEN seen
    ELSE LET nxt == {n \in own : n \notin seen /\ \E a \in frontier : n \in adj[a]}
         IN Reach(own, seen \cup nxt, nxt)

RECURSIVE RegionsOf(_)
RegionsOf(unassigned) ==
    IF unassigned = {} THEN <<>>
    ELSE LET first == SetMin(unassigned)
             region == Reach(unassigned, {first}, {first})
         IN <<region>> \o RegionsOf(unassigned \ region)

\* board.get_players_regions: the player's region groups (maximal connected
\* sets of its areas), the one holding the first unassigned area first.
GetPlayersRegions(b, player) == RegionsOf({a \in Areas(b) : b[a].owner = player})

----------------------------------------------------------------------------
(* The probability oracle (dicewars.ai.utils), as the spec describes it:   *)
(* the chance that the attacker's dice sum beats the defender's.           *)

AttackSuccessTable ==
    [atk \in 2..8 |->
        CASE atk = 2 -> << 83796296,  44367284,  15200617,   3587963,    610497,     76625,      7095,       473>>
          [] atk = 3 -> << 97299383,  77854938,  45357510,  19170096,   6071269,   1487860,    288998,     45192>>
          [] atk = 4 -> << 99729938,  93923611,  74283050,  45952825,  22044235,   8342284,   2544975,    637948>>
          [] atk = 5 -> << 99984997,  98794010,  90934714,  71807842,  46365360,  24244910,  10362599,   3674187>>
          [] atk = 6 -> << 99999643,  99821685,  97529981,  88395347,  69961639,  46673060,  25998382,  12150697>>
          [] atk = 7 -> <<100000000,  99980134,  99466336,  96153588,  86237652,  68516499,  46913917,  27437553>>
          [] atk = 8 -> <<100000000,  99998345,  99906917,  98953404,  94773146,  84387382,  67345564,  47109073>>]

AttackSuccessProbability(atk, def) == AttackSuccessTable[atk][def]

\* probability_of_successful_attack(board, atk_area, target_area)
ProbabilityOfSuccessfulAttack(b, atk_area, target_area) ==
    AttackSuccessProbability(b[atk_area].dice, b[target_area].dice)

RECURSIVE HoldAgainst(_, _, _, _)
HoldAgainst(b, enemies, area_dice, acc) ==
    IF enemies = <<>> THEN acc
    ELSE LET enemy_dice == b[Head(enemies)].dice
         IN HoldAgainst(b, Tail(enemies), area_dice,
                IF enemy_dice = 1 THEN acc
                ELSE Mul(acc, ONE - AttackSuccessProbability(enemy_dice, area_dice)))

\* probability_of_holding_area(board, area_name, area_dice, player_name):
\* the chance that no adjacent area of another owner takes the area.
ProbabilityOfHoldingArea(b, area_name, area_dice, player) ==
    HoldAgainst(b, SetToSeq({n \in adj[area_name] : b[n].owner # player}),
                area_dice, ONE)

\* possible_attacks(board, player_name): every border area of the player
\* that can attack (at least 2 dice) with every adjacent area of another owner.
RECURSIVE PairsFrom(_, _, _)
PairsFrom(b, sources, player) ==
    IF sources = <<>> THEN <<>>
    ELSE LET s == Head(sources)
             targets == SetToSeq({n \in adj[s] : b[n].owner # player})
         IN [i \in 1..Len(targets) |-> <<s, targets[i]>>]
            \o PairsFrom(b, Tail(sources), player)

PossibleAttacks(b, player) ==
    PairsFrom(b, SelectSeq(GetPlayerBorder(b, player), LAMBDA a : b[a].dice >= 2), player)

----------------------------------------------------------------------------
(* The turn generator.  A candidate is <<source, target, kind, score>>.    *)
(* The generator works on the board it is given; the probe of              *)
(* __get_transfer_probability writes to it, so every operator returns the  *)
(* board it leaves behind.                                                 *)

\* __get_transfer_probability without line 235: the probe's write is left.
GetTransferProbabilityNoRestore(b, source, target, player) ==
    LET final_dice    == Min(b[target].dice + b[source].dice, MAX_DICE)
        enemy_area_names == {e \in adj[target] : b[e].owner # player}
        b1            == [b EXCEPT ![target].dice = final_dice]
        attack_probabilities ==
            {ONE} \cup {ProbabilityOfSuccessfulAttack(b1, target, e) : e \in enemy_area_names}
    IN [prob  |-> Mul(ProbabilityOfHoldingArea(b1, target, final_dice, player),
                      SetMax(attack_probabilities)),
        board |-> b1]

\* __get_transfer_probability(board, source, target, player_name):
\* [prob: the transfer's value, board: the board after the probe].
GetTransferProbability(b, source, target, player) ==
    LET final_dice    == Min(b[target].dice + b[source].dice, MAX_DICE)
        original_dice == b[target].dice
        enemy_area_names == {e \in adj[target] : b[e].owner # player}
        b1            == [b EXCEPT ![target].dice = final_dice]
        attack_probabilities ==
            {ONE} \cup {ProbabilityOfSuccessfulAttack(b1, target, e) : e \in enemy_area_names}
        b2            == [b1 EXCEPT ![target].dice = original_dice]
    IN [prob  |-> Mul(ProbabilityOfHoldingArea(b2, target, final_dice, player),
                      SetMax(attack_probabilities)),
        board |-> b2]

\* __get_largest_region_for_player: the first region group of maximal size.
FirstLargest(players_regions) ==
    LET max_region_size == SetMax({Cardinality(players_regions[i]) :
                                      i \in 1..Len(players_regions)})
        first == SetMin({i \in 1..Len(players_regions) :
                            Cardinality(players_regions[i]) = max_region_size})
    IN players_regions[first]

GetLargestRegionForPlayer(player, b) == FirstLargest(GetPlayersRegions(b, player))

\* Lines 134-137: the attack is kept, with its score, or not.
AttackTurn(source_name, target_name, attack_power, turn_probability,
           threshold, weight, largest_region) ==
    IF turn_probability >= threshold \/ attack_power = MAX_DICE
    THEN <<<<source_name, target_name, BATTLE_COMMAND,
             IF source_name \in largest_region THEN turn_probability * weight
             ELSE turn_probability>>>>
    ELSE <<>>

RECURSIVE AttackTurns(_, _, _, _, _, _)
\* Lines 127-137: the attacks kept, in enumeration order.
AttackTurns(b, pairs, player, threshold, weight, largest_region) ==
    IF pairs = <<>> THEN <<>>
    ELSE AttackTurn(Head(pairs)[1], Head(pairs)[2], b[Head(pairs)[2]].dice,
                    Mul(ProbabilityOfSuccessfulAttack(b, Head(pairs)[1], Head(pairs)[2]),
                        ProbabilityOfHoldingArea(b, Head(pairs)[2], b[Head(pairs)[2]].dice,
                                                 player)),
                    threshold, weight, largest_region)
         \o AttackTurns(b, Tail(pairs), player, threshold, weight, largest_region)

\* Line 209: one more value in turn_probabilities.
ProbeStep(acc, r) == [probs |-> acc.probs \cup {r.prob}, board |-> r.board]

RECURSIVE BestProbe(_, _, _, _)
\* Lines 206-209: probes `source` into every border area in `targets`;
\* acc = [probs: the values so far, board: the board after the probes].
BestProbe(acc, source, targets, player) ==
    IF targets = <<>> THEN acc
    ELSE BestProbe(ProbeStep(acc, GetTransferProbability(acc.board, source,
                                                         Head(targets), player)),
                   source, Tail(targets), player)

\* Lines 211-217 without the test of line 214.
ChainAcceptFullTarget(st, probe, source, target) ==
    IF /\ st.count < max_transfers
       /\ SetMax(probe.probs) > TRANSFER_PROBABILITY_THRESHOLD
       /\ probe.board[source].dice > 1
    THEN [st EXCEPT !.board = probe.board,
                    !.turns = Append(@, <<source, target, TRANSFER_COMMAND,
                                          SetMax(probe.probs)>>),
                    !.count = @ + 1]
    ELSE [st EXCEPT !.board = probe.board]

\* Lines 211-217: the transfer source -> target is kept or not; st is the
\* state after the walk, probe the result of the probes.
ChainAccept(st, probe, source, target) ==
    IF /\ st.count < max_transfers
       /\ SetMax(probe.probs) > TRANSFER_PROBABILITY_THRESHOLD
       /\ probe.board[target].dice < MAX_DICE
       /\ probe.board[source].dice > 1
    THEN [st EXCEPT !.board = probe.board,
                    !.turns = Append(@, <<source, target, TRANSFER_COMMAND,
                                          SetMax(probe.probs)>>),
                    !.count = @ + 1]
    ELSE [st EXCEPT !.board = probe.board]

\* Lines 206-217, from the state st the walk of lines 202-204 left.
ChainProbe(st, source, target, original_target, border, player) ==
    ChainAccept(st,
                BestProbe([probs |-> {}, board |-> st.board], source,
                          SelectSeq(GetAdjacentAreasNames(original_target),
                                    LAMBDA n : n \in border),
                          player),
                source, target)

RECURSIVE RequestTransferFromArea(_, _, _, _, _, _, _)
RECURSIVE RequestFromNeighbors(_, _, _, _, _, _, _)

\* Lines 202-204: the walk into the inner areas adjacent to `source`.
RequestFromNeighbors(st, neighbors, source, original_target, inner, border, player) ==
    IF neighbors = <<>> THEN st
    ELSE LET n == Head(neighbors)
             st1 == IF n \notin st.ignored /\ n \in inner
                    THEN RequestTransferFromArea(st, n, source, original_target,
                                                 inner, border, player)
                    ELSE st
         IN RequestFromNeighbors(st1, Tail(neighbors), source, original_target,
                                 inner, border, player)

\* __request_transfer_from_area; st = [board, turns, count, ignored] are the
\* board, the list `turns`, self.transfer_count and the list `ignored_areas`.
RequestTransferFromArea(st, source, target, original_target, inner, border, player) ==
    ChainProbe(RequestFromNeighbors([st EXCEPT !.ignored = @ \cup {source}],
                                    GetAdjacentAreasNames(source), source,
                                    original_target, inner, border, player),
               source, target, original_target, border, player)

RECURSIVE ChainsInto(_, _, _, _, _, _)
\* Lines 155-167: one chain, with a fresh ignored list, from every inner
\* area adjacent to the border-neighbor `area`.
ChainsInto(st, neighbors, area, inner, border, player) ==
    IF neighbors = <<>> THEN st
    ELSE LET n == Head(neighbors)
             st1 == IF n \in inner
                    THEN RequestTransferFromArea([st EXCEPT !.ignored = {}], n, area, area,
                                                 inner, border, player)
                    ELSE st
         IN ChainsInto(st1, Tail(neighbors), area, inner, border, player)

\* Lines 175-177: the transfer n -> area is kept or not; r is the probe.
DirectAccept(st, r, n, area, border) ==
    IF /\ r.board[n].dice > 1
       /\ r.prob > TRANSFER_PROBABILITY_THRESHOLD
       /\ n \notin border
    THEN [st EXCEPT !.board = r.board,
                    !.turns = Append(@, <<n, area, TRANSFER_COMMAND, r.prob>>),
                    !.count = @ + 1]
    ELSE [st EXCEPT !.board = r.board]

RECURSIVE DirectIntoAnyOwner(_, _, _, _, _, _)
\* Lines 169-177 without the test of lines 170-171.
DirectIntoAnyOwner(st, neighbors, area, player_areas, border, player) ==
    IF neighbors = <<>> THEN st
    ELSE DirectIntoAnyOwner(DirectAccept(st,
                                         GetTransferProbability(st.board, Head(neighbors),
                                                                area, player),
                                         Head(neighbors), area, border),
                            Tail(neighbors), area, player_areas, border, player)

RECURSIVE DirectInto(_, _, _, _, _, _)
\* Lines 169-177: the transfers into the border area `area` from its
\* adjacent areas of the player.
DirectInto(st, neighbors, area, player_areas, border, player) ==
    IF neighbors = <<>> THEN st
    ELSE DirectInto(IF Head(neighbors) \notin player_areas THEN st
                    ELSE DirectAccept(st,
                                      GetTransferProbability(st.board, Head(neighbors),
                                                             area, player),
                                      Head(neighbors), area, border),
                    Tail(neighbors), area, player_areas, border, player)

RECURSIVE TransferLoop(_, _, _, _, _, _, _)
\* Lines 150-177: the loop over the player's areas.
TransferLoop(st, areas, player_areas, border, border_neighbor, inner, player) ==
    IF areas = <<>> \/ st.count = max_transfers THEN st
    ELSE LET area == Head(areas)
             st1 == IF area \in border_neighbor
                    THEN ChainsInto(st, GetAdjacentAreasNames(area), area, inner, border, player)
                    ELSE IF area \in border /\ st.board[area].dice < MAX_DICE
                    THEN DirectInto(st, GetAdjacentAreasNames(area), area,
                                    player_areas, border, player)
                    ELSE st
         IN TransferLoop(st1, Tail(areas), player_areas, border, border_neighbor, inner, player)

RECURSIVE InsertByScore(_, _)
\* Where sorted(..., reverse = True) puts `turn`: behind every turn whose
\* score is not smaller (the sort is stable).
InsertByScore(sorted, turn) ==
    IF sorted = <<>> THEN <<turn>>
    ELSE IF Head(sorted)[4] >= turn[4]
         THEN <<Head(sorted)>> \o InsertByScore(Tail(sorted), turn)
         ELSE <<turn>> \o sorted

RECURSIVE SortByScore(_, _)
SortByScore(sorted, turns) ==
    IF turns = <<>> THEN sorted
    ELSE SortByScore(InsertByScore(sorted, Head(turns)), Tail(turns))

\* Line 180: the score is dropped.
Triples(turns) == [i \in 1..Len(turns) |-> <<turns[i][1], turns[i][2], turns[i][3]>>]

\* Lines 179-181, from the state st the loops left.
Ranked(st) == [turns |-> Triples(SortByScore(<<>>, st.turns)),
               board |-> st.board,
               count |-> st.count]

\* __get_possible_turns(player_name, board), called with self.transfer_count_this_turn = tctt:
\* [turns: the ranked <<source, target, kind>>, board: the board the
\* call leaves, count: self.transfer_count at the end].
GetPossibleTurns(player, b, tctt) ==
    LET many == NbPlayersAlive(b) > ATTACK_PLAYERS_LIMIT_2
        attack_probability_threshold ==
            IF many THEN ATTACK_PROBABILITY_THRESHOLD_2 ELSE ATTACK_PROBABILITY_THRESHOLD
        attack_from_largest_region_weight ==
            IF many THEN ATTACK_FROM_LARGEST_REGION_WEIGHT_2
            ELSE ATTACK_FROM_LARGEST_REGION_WEIGHT
        largest_region == GetLargestRegionForPlayer(player, b)
        attacks == AttackTurns(b, PossibleAttacks(b, player), player,
                               attack_probability_threshold,
                               attack_from_largest_region_weight, largest_region)
        count0 == IF player = player_name THEN tctt ELSE 0
        border_area_names == SeqToSet(GetPlayerBorder(b, player))
        player_area_names == SeqToSet(GetPlayerAreas(b, player))
        border_neighbor_area_names ==
            {a \in player_area_names :
                a \notin border_area_names /\ \E n \in adj[a] : n \in border_area_names}
        inner_area_names ==
            {a \in player_area_names :
                a \notin border_area_names /\ a \notin border_neighbor_area_names}
    IN Ranked(TransferLoop([board |-> b, turns |-> attacks, count |-> count0,
                            ignored |-> {}],
                           GetPlayerAreas(b, player), player_area_names,
                           border_area_names, border_neighbor_area_names,
                           inner_area_names, player))

----------------------------------------------------------------------------
(* The simulation step and the heuristic evaluator.                        *)

\* __simulate_command with line 299 taking no max(..., 1).
SimulateCommandNoFloor(b, source_name, target_name, command_type) ==
    IF command_type = BATTLE_COMMAND
    THEN [b EXCEPT ![target_name] = [owner |-> source_name,
                                     dice  |-> b[source_name].dice - 1],
                   ![source_name].dice = 1]
    ELSE IF command_type = TRANSFER_COMMAND
    THEN LET former_target_dice == b[target_name].dice
             new_target_dice == Min(b[target_name].dice + b[source_name].dice, MAX_DICE)
         IN [b EXCEPT ![target_name].dice = new_target_dice,
                      ![source_name].dice =
                          b[source_name].dice - (new_target_dice - former_target_dice)]
    ELSE b

\* __simulate_command with line 295 run for a transfer as well.
SimulateCommandTransferOwns(b, source_name, target_name, command_type) ==
    IF command_type = BATTLE_COMMAND
    THEN [b EXCEPT ![target_name] = [owner |-> source_name,
                                     dice  |-> b[source_name].dice - 1],
                   ![source_name].dice = 1]
    ELSE IF command_type = TRANSFER_COMMAND
    THEN LET former_target_dice == b[target_name].dice
             new_target_dice == Min(b[target_name].dice + b[source_name].dice, MAX_DICE)
         IN [b EXCEPT ![target_name] = [owner |-> source_name, dice |-> new_target_dice],
                      ![source_name].dice =
                          Max(b[source_name].dice - (new_target_dice - former_target_dice), 1)]
    ELSE b

\* __simulate_command(board, source_name, target_name, command_type)
SimulateCommand(b, source_name, target_name, command_type) ==
    IF command_type = BATTLE_COMMAND
    THEN [b EXCEPT ![target_name] = [owner |-> source_name,
                                     dice  |-> b[source_name].dice - 1],
                   ![source_name].dice = 1]
    ELSE IF command_type = TRANSFER_COMMAND
    THEN LET former_target_dice == b[target_name].dice
             new_target_dice == Min(b[target_name].dice + b[source_name].dice, MAX_DICE)
         IN [b EXCEPT ![target_name].dice = new_target_dice,
                      ![source_name].dice =
                          Max(b[source_name].dice - (new_target_dice - former_target_dice), 1)]
    ELSE b

\* Line 315 takes max() of an empty list when a player has no region group.
HeuristicsFails(players, b) == \E p \in players : GetPlayersRegions(b, p) = <<>>

\* __get_players_heuristics without line 315.
GetPlayersHeuristicsNoLargest(players, b) ==
    [p \in players |->
        LET player_regions == GetPlayersRegions(b, p)
            sizes == [i \in 1..Len(player_regions) |-> Cardinality(player_regions[i])]
        IN GetPlayerDice(b, p)
           + REGION_HEURISTIC_WEIGHT * SumOver(sizes, DOMAIN sizes)]

\* __get_players_heuristics(players, board), when it does not fail.
GetPlayersHeuristics(players, b) ==
    [p \in players |->
        LET player_regions == GetPlayersRegions(b, p)
            sizes == [i \in 1..Len(player_regions) |-> Cardinality(player_regions[i])]
        IN GetPlayerDice(b, p)
           + REGION_HEURISTIC_WEIGHT * SumOver(sizes, DOMAIN sizes)
           + LARGEST_REGION_HEURISTIC_WEIGHT * SetMax(SeqToSet(sizes))]

----------------------------------------------------------------------------
(* The entry point's helpers.                                              *)

None == <<>>
NoRet == [none |-> TRUE]
EmptyHeuristics == [p \in {} |-> 0]

EndTurnCommand == [type |-> "end_turn"]
BattleCommand(source, target) == [type |-> "battle", source |-> source, target |-> target]
TransferCommand(source, target) == [type |-> "transfer", source |-> source, target |-> target]

\* __perform_command with <= for the < of line 109.
PerformCommandAtCap(source, target, command_type, nb_transfers_this_turn) ==
    IF command_type = BATTLE_COMMAND
    THEN BattleCommand(source, target)
    ELSE IF command_type = TRANSFER_COMMAND /\ nb_transfers_this_turn <= max_transfers
    THEN TransferCommand(source, target)
    ELSE EndTurnCommand

\* __perform_command(source, target, command_type, nb_transfers_this_turn)
PerformCommand(source, target, command_type, nb_transfers_this_turn) ==
    IF command_type = BATTLE_COMMAND
    THEN BattleCommand(source, target)
    ELSE IF command_type = TRANSFER_COMMAND /\ nb_transfers_this_turn < max_transfers
    THEN TransferCommand(source, target)
    ELSE EndTurnCommand

\* deque.reverse()
Reverse(s) == [i \in 1..Len(s) |-> s[Len(s) + 1 - i]]

\* deque.rotate(1): the right end moves to the left end.
Rotate1(s) == <<s[Len(s)]>> \o SubSeq(s, 1, Len(s) - 1)

RECURSIVE RotateUntilLast(_, _)
\* Lines 80-81.
RotateUntilLast(s, player) ==
    IF s[Len(s)] = player THEN s ELSE RotateUntilLast(Rotate1(s), player)

RECURSIVE Extended(_, _, _)
\* Lines 84-85.
Extended(players, players_copy, times) ==
    IF times <= 0 THEN players
    ELSE Extended(players \o players_copy, players_copy, times - 1)

\* Lines 78-85 without the reverse() of line 79.
BuildRotationNoReverse(order, player) ==
    LET players == RotateUntilLast(order, player)
    IN Extended(players, players, MAX_N_ITERATIONS - 1)

\* Lines 78-85: the rotation handed to __max_n; its right end is consumed first.
BuildRotation(order, player) ==
    LET players == RotateUntilLast(Reverse(order), player)
    IN Extended(players, players, MAX_N_ITERATIONS - 1)

\* Line 77: whether ai_turn searches.
UsesSearch(time_left, nb_moves_this_turn, nb_turns_this_game) ==
    /\ time_left >= MAX_N_TIME_THRESHOLD
    /\ nb_moves_this_turn < MAX_N_TURNS_LIMIT
    /\ nb_turns_this_game < MAX_N_TOTAL_TURNS_LIMIT

----------------------------------------------------------------------------
(* The call stack of __max_n.  A frame is one call: its board, its depth,  *)
(* the length the rotation had when it was entered (history), where the    *)
(* call stands, and the locals of lines 259-276.  With every heuristic map *)
(* goes the board it was computed from (history): evaluated.  subs keeps   *)
(* the maps the candidates' calls returned, in order (history).            *)

Frame(b, depth) ==
    [board |-> b, depth |-> depth, len0 |-> Len(players_names), pc |-> "entry",
     player |-> 0, turns |-> <<>>, idx |-> 0, heur |-> EmptyHeuristics,
     turn |-> None, evaluated |-> <<>>, subs |-> <<>>]

Top == stack[Len(stack)]
Pop(st) == SubSeq(st, 1, Len(st) - 1)
SetTop(st, f) == [st EXCEPT ![Len(st)] = f]
Front(s) == SubSeq(s, 1, Len(s) - 1)
Last(s) == s[Len(s)]

Searching == pc = "search" /\ stack # <<>>

----------------------------------------------------------------------------
(* Bounds of the model and the boards it starts from.                      *)

\* max_transfers is drawn from 0..MaxTransfersCap.
MaxTransfersCap == 1
\* nb_transfers_this_turn is drawn from 0..MaxNbTransfers.
MaxNbTransfers == 1
\* In the generator's specification max_transfers is drawn from
\* 0..MaxTransfersCap + GenExtraTransfers.
GenExtraTransfers == 1

DiceVals == {1, 2, MAX_DICE}
TimeLefts == {0, MAX_N_TIME_THRESHOLD}
NbMoves == {0, MAX_N_TURNS_LIMIT}
NbTurns == {0, MAX_N_TOTAL_TURNS_LIMIT}

\* The adjacency of a board of n areas with the edges E.
Graph(n, E) == [a \in 1..n |-> {c \in 1..n : {a, c} \in E}]

Path3 == Graph(3, {{1, 2}, {2, 3}})
Path4 == Graph(4, {{1, 2}, {2, 3}, {3, 4}})
\* Area 2 between area 1 and the areas 3 and 4.
Star4 == Graph(4, {{1, 2}, {2, 3}, {2, 4}})
\* Area 2 borders 1; 3 and 4 lie behind it, 5 behind both, 6 behind 5.
Fork6 == Graph(6, {{1, 2}, {2, 3}, {2, 4}, {3, 5}, {4, 5}, {5, 6}})

\* The games the search is started in: a board's adjacency, the players,
\* the dice an area may start with and the orders of play.
Scenarios ==
    {[adj |-> Path3, players |-> {1, 2, 3}, dice |-> DiceVals,
      orders |-> {<<1, 2, 3>>, <<2, 1, 3>>}],
     [adj |-> Path4, players |-> {1, 2}, dice |-> {1, MAX_DICE},
      orders |-> {<<1, 2>>, <<2, 1>>}],
     [adj |-> Path3, players |-> {1}, dice |-> DiceVals,
      orders |-> {<<1>>}]}

\* The games the turn generator alone is run in.
GenScenarios ==
    {[adj |-> Path3, players |-> {1, 2, 3}, dice |-> DiceVals],
     [adj |-> Star4, players |-> {1, 2},    dice |-> DiceVals],
     [adj |-> Path4, players |-> {1, 2},    dice |-> DiceVals],
     [adj |-> Fork6, players |-> {1, 2},    dice |-> {1, 2}]}

NoCall == [called |-> FALSE]

----------------------------------------------------------------------------
(* ai_turn and __max_n, one action per step.                               *)

\* What every specification starts with: nothing was called yet.
Idle ==
    /\ board_before = board
    /\ transfer_count = 0
    /\ transfer_count_this_turn = 0
    /\ players_names = <<>>
    /\ stack = <<>>
    /\ ret = NoRet
    /\ pc = "idle"
    /\ command = NoCall
    /\ gen = NoCall
    /\ sim = NoCall

\* AI.__init__ (lines 60-68) in a game of Scenarios; the host asks a
\* player that owns an area.
Init ==
    /\ \E sc \in Scenarios :
          /\ adj = sc.adj
          /\ \E owner \in [DOMAIN sc.adj -> sc.players], dice \in [DOMAIN sc.adj -> sc.dice] :
                board = [a \in DOMAIN sc.adj |-> [owner |-> owner[a], dice |-> dice[a]]]
          /\ players_order \in sc.orders
    /\ player_name \in {board[a].owner : a \in DOMAIN board}
    /\ max_transfers \in 0..MaxTransfersCap
    /\ Idle

\* The record kept of one call of __get_possible_turns.
GenCall(player, b, tctt, r) ==
    [called |-> TRUE, player |-> player, board |-> b, turns |-> r.turns,
     count0 |-> IF player = player_name THEN tctt ELSE 0,
     count |-> r.count]

\* ai_turn, lines 74-87: the search is started on a copy of the board.
AiTurnSearch ==
    /\ pc = "idle"
    /\ \E time_left \in TimeLefts, nb_moves_this_turn \in NbMoves,
          nb_transfers_this_turn \in 0..MaxNbTransfers, nb_turns_this_game \in NbTurns :
          /\ UsesSearch(time_left, nb_moves_this_turn, nb_turns_this_game)
          /\ transfer_count_this_turn' = nb_transfers_this_turn
    /\ board_before' = board
    /\ players_names' = BuildRotation(players_order, player_name)
    /\ stack' = <<[Frame(board, MAX_N_DEPTH) EXCEPT !.len0 = Len(players_names')]>>
    /\ ret' = NoRet
    /\ pc' = "search"
    /\ UNCHANGED <<adj, board, player_name, players_order, max_transfers,
                   transfer_count, command, gen, sim>>

\* Lines 88-93 without the test of line 88: line 91 unpacks None and fails.
AiTurnSearchEndNoNoneTest ==
    /\ pc = "search"
    /\ stack = <<>>
    /\ ret # NoRet
    /\ command' = IF ret.turn = None THEN [type |-> "failure"]
                  ELSE PerformCommand(ret.turn[1], ret.turn[2], ret.turn[3],
                                      transfer_count_this_turn)
    /\ pc' = "done"
    /\ UNCHANGED <<adj, board, board_before, player_name, players_order, max_transfers,
                   transfer_count, transfer_count_this_turn, players_names, stack,
                   ret, gen, sim>>

\* ai_turn, lines 88-93: the search has returned.
AiTurnSearchEnd ==
    /\ pc = "search"
    /\ stack = <<>>
    /\ ret # NoRet
    /\ command' = IF ret.turn = None THEN EndTurnCommand
                  ELSE PerformCommand(ret.turn[1], ret.turn[2], ret.turn[3],
                                      transfer_count_this_turn)
    /\ pc' = "done"
    /\ UNCHANGED <<adj, board, board_before, player_name, players_order, max_transfers,
                   transfer_count, transfer_count_this_turn, players_names, stack,
                   ret, gen, sim>>

\* ai_turn, lines 96-102, with r the generator's result.
FallbackStep(nb_transfers_this_turn, r) ==
    /\ board' = r.board
    /\ transfer_count' = r.count
    /\ gen' = GenCall(player_name, board, nb_transfers_this_turn, r)
    /\ command' = IF r.turns # <<>>
                  THEN PerformCommand(r.turns[1][1], r.turns[1][2], r.turns[1][3],
                                      nb_transfers_this_turn)
                  ELSE EndTurnCommand

\* ai_turn, lines 74-75 and 95-102: the best candidate of the generator.
AiTurnFallback ==
    /\ pc = "idle"
    /\ \E time_left \in TimeLefts, nb_moves_this_turn \in NbMoves,
          nb_transfers_this_turn \in 0..MaxNbTransfers, nb_turns_this_game \in NbTurns :
          /\ ~UsesSearch(time_left, nb_moves_this_turn, nb_turns_this_game)
          /\ transfer_count_this_turn' = nb_transfers_this_turn
          /\ FallbackStep(nb_transfers_this_turn,
                          GetPossibleTurns(player_name, board, nb_transfers_this_turn))
    /\ board_before' = board
    /\ pc' = "done"
    /\ UNCHANGED <<adj, player_name, players_order, max_transfers, players_names,
                   stack, ret, sim>>

\* __max_n, lines 250-251: the rotation is empty.
MaxNEmptyRotation ==
    /\ Searching
    /\ Top.pc = "entry"
    /\ players_names = <<>>
    /\ IF HeuristicsFails({player_name}, Top.board)
       THEN /\ pc' = "failed"
            /\ UNCHANGED <<stack, ret>>
       ELSE /\ ret' = [turn |-> None,
                       heur |-> GetPlayersHeuristics({player_name}, Top.board),
                       evaluated |-> Top.board]
            /\ stack' = Pop(stack)
            /\ pc' = pc
    /\ UNCHANGED <<adj, board, board_before, player_name, players_order, max_transfers,
                   transfer_count, transfer_count_this_turn, players_names,
                   command, gen, sim>>

\* __max_n, lines 253-256: the player at the right end owns no area.
MaxNSkipPlayer ==
    /\ Searching
    /\ Top.pc = "entry"
    /\ players_names # <<>>
    /\ GetPlayerAreas(Top.board, Last(players_names)) = <<>>
    /\ players_names' = Front(players_names)
    /\ stack' = Append(SetTop(stack, [Top EXCEPT !.pc = "return", !.player = Last(players_names)]),
                       [Frame(Top.board, Top.depth) EXCEPT !.len0 = Len(players_names')])
    /\ ret' = NoRet
    /\ UNCHANGED <<adj, board, board_before, player_name, players_order, max_transfers,
                   transfer_count, transfer_count_this_turn, pc, command, gen, sim>>

\* __max_n, lines 259-265, with r the generator's result.
GenerateStep(player, r) ==
    /\ transfer_count' = r.count
    /\ gen' = GenCall(player, Top.board, transfer_count_this_turn, r)
    /\ IF r.turns = <<>>
       THEN stack' = Append(SetTop(stack, [Top EXCEPT !.pc = "no_turns", !.player = player,
                                                      !.board = r.board]),
                            Frame(r.board, 0))
       ELSE stack' = SetTop(stack, [Top EXCEPT !.pc = "loop", !.player = player,
                                               !.board = r.board,
                                               !.turns = SubSeq(r.turns, 1,
                                                                Min(Top.depth, Len(r.turns))),
                                               !.idx = 1, !.heur = EmptyHeuristics,
                                               !.subs = <<>>,
                                               !.turn = <<0, 0, BATTLE_COMMAND>>])

\* __max_n, lines 258-265: the candidates of the player at the right end.
MaxNGenerate ==
    /\ Searching
    /\ Top.pc = "entry"
    /\ players_names # <<>>
    /\ GetPlayerAreas(Top.board, Last(players_names)) # <<>>
    /\ Top.depth > 0
    /\ GenerateStep(Last(players_names),
                    GetPossibleTurns(Last(players_names), Top.board, transfer_count_this_turn))
    /\ ret' = NoRet
    /\ UNCHANGED <<adj, board, board_before, player_name, players_order, max_transfers,
                   transfer_count_this_turn, players_names, pc, command, sim>>

\* __max_n, lines 266-269: the next candidate is simulated on a copy.
MaxNExplore ==
    /\ Searching
    /\ Top.pc = "loop"
    /\ Top.idx <= Len(Top.turns)
    /\ LET turn == Top.turns[Top.idx]
           board_copy == SimulateCommand(Top.board, turn[1], turn[2], turn[3])
       IN /\ sim' = [called |-> TRUE, source |-> turn[1], target |-> turn[2],
                     kind |-> turn[3], player |-> Top.player,
                     before |-> Top.board, after |-> board_copy]
          /\ stack' = Append(SetTop(stack, [Top EXCEPT !.pc = "await"]),
                             Frame(board_copy, Top.depth - 1))
    /\ ret' = NoRet
    /\ UNCHANGED <<adj, board, board_before, player_name, players_order, max_transfers,
                   transfer_count, transfer_count_this_turn, players_names, pc,
                   command, gen>>

\* Lines 271-274 with >= for the > of line 272.
MaxNAbsorbLastWins ==
    /\ Searching
    /\ Top.pc = "await"
    /\ ret # NoRet
    /\ LET players_new_heuristics == ret.heur
           better == /\ Top.player \in DOMAIN players_new_heuristics
                     /\ \/ Top.player \notin DOMAIN Top.heur
                        \/ players_new_heuristics[Top.player] >= Top.heur[Top.player]
       IN stack' = SetTop(stack,
                      IF better
                      THEN [Top EXCEPT !.pc = "loop", !.idx = @ + 1,
                                       !.subs = Append(@, players_new_heuristics),
                                       !.heur = players_new_heuristics,
                                       !.evaluated = ret.evaluated,
                                       !.turn = Top.turns[Top.idx]]
                      ELSE [Top EXCEPT !.pc = "loop", !.idx = @ + 1,
                                       !.subs = Append(@, players_new_heuristics)])
    /\ ret' = NoRet
    /\ UNCHANGED <<adj, board, board_before, player_name, players_order, max_transfers,
                   transfer_count, transfer_count_this_turn, players_names, pc,
                   command, gen, sim>>

\* __max_n, lines 271-274: the candidate's result is compared.
MaxNAbsorb ==
    /\ Searching
    /\ Top.pc = "await"
    /\ ret # NoRet
    /\ LET players_new_heuristics == ret.heur
           better == /\ Top.player \in DOMAIN players_new_heuristics
                     /\ \/ Top.player \notin DOMAIN Top.heur
                        \/ players_new_heuristics[Top.player] > Top.heur[Top.player]
       IN stack' = SetTop(stack,
                      IF better
                      THEN [Top EXCEPT !.pc = "loop", !.idx = @ + 1,
                                       !.subs = Append(@, players_new_heuristics),
                                       !.heur = players_new_heuristics,
                                       !.evaluated = ret.evaluated,
                                       !.turn = Top.turns[Top.idx]]
                      ELSE [Top EXCEPT !.pc = "loop", !.idx = @ + 1,
                                       !.subs = Append(@, players_new_heuristics)])
    /\ ret' = NoRet
    /\ UNCHANGED <<adj, board, board_before, player_name, players_order, max_transfers,
                   transfer_count, transfer_count_this_turn, players_names, pc,
                   command, gen, sim>>

\* __max_n, line 276: every candidate was explored.
MaxNLoopEnd ==
    /\ Searching
    /\ Top.pc = "loop"
    /\ Top.idx > Len(Top.turns)
    /\ ret' = [turn |-> IF Top.heur # EmptyHeuristics THEN Top.turn ELSE None,
               heur |-> Top.heur, evaluated |-> Top.evaluated]
    /\ stack' = Pop(stack)
    /\ UNCHANGED <<adj, board, board_before, player_name, players_order, max_transfers,
                   transfer_count, transfer_count_this_turn, players_names, pc,
                   command, gen, sim>>

\* Lines 278-280 without the pop of line 278.
MaxNNextPlayerNoPop ==
    /\ Searching
    /\ Top.pc = "entry"
    /\ players_names # <<>>
    /\ GetPlayerAreas(Top.board, Last(players_names)) # <<>>
    /\ Top.depth = 0
    /\ Front(players_names) # <<>>
    /\ stack' = Append(SetTop(stack, [Top EXCEPT !.pc = "return", !.player = Last(players_names)]),
                       Frame(Top.board, MAX_N_DEPTH))
    /\ ret' = NoRet
    /\ UNCHANGED <<adj, board, board_before, player_name, players_order, max_transfers,
                   transfer_count, transfer_count_this_turn, players_names, pc,
                   command, gen, sim>>

\* __max_n, lines 278-280: depth 0, the player is consumed and others remain.
MaxNNextPlayer ==
    /\ Searching
    /\ Top.pc = "entry"
    /\ players_names # <<>>
    /\ GetPlayerAreas(Top.board, Last(players_names)) # <<>>
    /\ Top.depth = 0
    /\ Front(players_names) # <<>>
    /\ players_names' = Front(players_names)
    /\ stack' = Append(SetTop(stack, [Top EXCEPT !.pc = "return", !.player = Last(players_names)]),
                       [Frame(Top.board, MAX_N_DEPTH) EXCEPT !.len0 = Len(players_names')])
    /\ ret' = NoRet
    /\ UNCHANGED <<adj, board, board_before, player_name, players_order, max_transfers,
                   transfer_count, transfer_count_this_turn, pc, command, gen, sim>>

\* __max_n, lines 278 and 282-284: depth 0, the last player is consumed.
MaxNEvaluate ==
    /\ Searching
    /\ Top.pc = "entry"
    /\ players_names # <<>>
    /\ GetPlayerAreas(Top.board, Last(players_names)) # <<>>
    /\ Top.depth = 0
    /\ Front(players_names) = <<>>
    /\ players_names' = Front(players_names)
    /\ LET living_players == {Top.board[a].owner : a \in Areas(Top.board)}
       IN IF HeuristicsFails(living_players, Top.board)
          THEN /\ pc' = "failed"
               /\ UNCHANGED <<stack, ret>>
          ELSE /\ ret' = [turn |-> None,
                          heur |-> GetPlayersHeuristics(living_players, Top.board),
                          evaluated |-> Top.board]
               /\ stack' = Pop(stack)
               /\ pc' = pc
    /\ UNCHANGED <<adj, board, board_before, player_name, players_order, max_transfers,
                   transfer_count, transfer_count_this_turn, command, gen, sim>>

\* __max_n, lines 256 and 280: the inner call's result is returned as it is.
MaxNReturn ==
    /\ Searching
    /\ Top.pc = "return"
    /\ ret # NoRet
    /\ stack' = Pop(stack)
    /\ UNCHANGED <<adj, board, board_before, player_name, players_order, max_transfers,
                   transfer_count, transfer_count_this_turn, players_names, ret, pc,
                   command, gen, sim>>

\* Lines 261-262 returning None with an empty map.
MaxNReturnNoTurnsEmpty ==
    /\ Searching
    /\ Top.pc = "no_turns"
    /\ ret # NoRet
    /\ ret' = [turn |-> None, heur |-> EmptyHeuristics, evaluated |-> ret.evaluated]
    /\ stack' = Pop(stack)
    /\ UNCHANGED <<adj, board, board_before, player_name, players_order, max_transfers,
                   transfer_count, transfer_count_this_turn, players_names, pc,
                   command, gen, sim>>

\* __max_n, lines 261-262: the inner call's heuristics with no action.
MaxNReturnNoTurns ==
    /\ Searching
    /\ Top.pc = "no_turns"
    /\ ret # NoRet
    /\ ret' = [turn |-> None, heur |-> ret.heur, evaluated |-> ret.evaluated]
    /\ stack' = Pop(stack)
    /\ UNCHANGED <<adj, board, board_before, player_name, players_order, max_transfers,
                   transfer_count, transfer_count_this_turn, players_names, pc,
                   command, gen, sim>>

Next ==
    \/ AiTurnSearch
    \/ AiTurnSearchEnd
    \/ AiTurnFallback
    \/ MaxNEmptyRotation
    \/ MaxNSkipPlayer
    \/ MaxNGenerate
    \/ MaxNExplore
    \/ MaxNAbsorb
    \/ MaxNLoopEnd
    \/ MaxNNextPlayer
    \/ MaxNEvaluate
    \/ MaxNReturn
    \/ MaxNReturnNoTurns

Spec == Init /\ [][Next]_vars

----------------------------------------------------------------------------
(* The turn generator alone, on the boards of GenScenarios.                *)

InitGen ==
    /\ \E sc \in GenScenarios :
          /\ adj = sc.adj
          /\ \E owner \in [DOMAIN sc.adj -> sc.players], dice \in [DOMAIN sc.adj -> sc.dice] :
                board = [a \in DOMAIN sc.adj |-> [owner |-> owner[a], dice |-> dice[a]]]
          /\ players_order = SetToSeq(sc.players)
    /\ player_name \in {board[a].owner : a \in DOMAIN board}
    /\ max_transfers \in 0..(MaxTransfersCap + GenExtraTransfers)
    /\ Idle

\* __get_possible_turns for a player that owns an area, with r its result.
GeneratorStep(player, tctt, r) ==
    /\ board' = r.board
    /\ transfer_count' = r.count
    /\ gen' = GenCall(player, board, tctt, r)

\* One call of __get_possible_turns(player, board) after line 75 has set
\* self.transfer_count_this_turn.
Generate ==
    /\ pc = "idle"
    /\ \E player \in {board[a].owner : a \in DOMAIN board},
          nb_transfers_this_turn \in 0..MaxNbTransfers :
          /\ transfer_count_this_turn' = nb_transfers_this_turn
          /\ GeneratorStep(player, nb_transfers_this_turn,
                           GetPossibleTurns(player, board, nb_transfers_this_turn))
    /\ board_before' = board
    /\ pc' = "generated"
    /\ UNCHANGED <<adj, player_name, players_order, max_transfers, players_names,
                   stack, ret, command, sim>>

NextGen == Generate

SpecGen == InitGen /\ [][NextGen]_vars

----------------------------------------------------------------------------
(* __perform_command alone, on every chosen action.                        *)

InitCmd ==
    /\ adj \in {Path4, Fork6}
    /\ board = [a \in DOMAIN adj |-> [owner |-> 1, dice |-> 1]]
    /\ players_order = <<1, 2>>
    /\ player_name = 1
    /\ max_transfers \in 0..MaxTransfersCap
    /\ Idle

\* Lines 75 and 91-93: the chosen action is translated.
Translate ==
    /\ pc = "idle"
    /\ \E source \in DOMAIN adj, target \in DOMAIN adj,
          command_type \in {BATTLE_COMMAND, TRANSFER_COMMAND},
          nb_transfers_this_turn \in 0..(MaxNbTransfers + 1) :
          /\ source # target
          /\ transfer_count_this_turn' = nb_transfers_this_turn
          /\ ret' = [turn |-> <<source, target, command_type>>, heur |-> EmptyHeuristics]
          /\ command' = PerformCommand(source, target, command_type, nb_transfers_this_turn)
    /\ pc' = "done"
    /\ UNCHANGED <<adj, board, board_before, player_name, players_order, max_transfers,
                   transfer_count, players_names, stack, gen, sim>>

NextCmd == Translate

SpecCmd == InitCmd /\ [][NextCmd]_vars

----------------------------------------------------------------------------
(* __get_players_heuristics alone, on every board of HeurScenarios.        *)

HeurScenarios ==
    {[adj |-> Path3, players |-> {1, 2, 3}, dice |-> DiceVals],
     [adj |-> Path4, players |-> {1, 2},    dice |-> DiceVals]}

InitHeur ==
    /\ \E sc \in HeurScenarios :
          /\ adj = sc.adj
          /\ \E owner \in [DOMAIN sc.adj -> sc.players], dice \in [DOMAIN sc.adj -> sc.dice] :
                board = [a \in DOMAIN sc.adj |-> [owner |-> owner[a], dice |-> dice[a]]]
          /\ players_order = SetToSeq(sc.players)
    /\ player_name \in {board[a].owner : a \in DOMAIN board}
    /\ max_transfers = 0
    /\ Idle

\* __get_players_heuristics(players, board) as lines 251 and 282-283 call
\* it: for the acting AI alone, or for the living players.
Evaluate ==
    /\ pc = "idle"
    /\ \E players \in {{player_name}, {board[a].owner : a \in Areas(board)}} :
          ret' = [turn |-> None, heur |-> GetPlayersHeuristics(players, board)]
    /\ pc' = "evaluated"
    /\ UNCHANGED <<adj, board, board_before, player_name, players_order, max_transfers,
                   transfer_count, transfer_count_this_turn, players_names, stack,
                   command, gen, sim>>

NextHeur == Evaluate

SpecHeur == InitHeur /\ [][NextHeur]_vars

----------------------------------------------------------------------------
(* The claims.                                                             *)

Simulated(kind) == sim.called /\ sim.kind = kind

\* C1: after every simulated Attack(source, target) the target's owner is
\* the owner of the source area, the target's dice are the source's dice
\* before the action minus 1, and the source has 1 die.
C1_AttackPostcondition ==
    Simulated(BATTLE_COMMAND) =>
        /\ sim.after[sim.target].owner = sim.before[sim.source].owner
        /\ sim.after[sim.target].dice = sim.before[sim.source].dice - 1
        /\ sim.after[sim.source].dice = 1

\* C2: after every simulated Transfer(source, target) from dice in 1..8 the
\* source has at least 1 die, the target at most 8, and the dice of source
\* and target together are as many as before.
C2_TransferConservesDice ==
    (/\ Simulated(TRANSFER_COMMAND)
     /\ sim.before[sim.source].dice \in 1..MAX_DICE
     /\ sim.before[sim.target].dice \in 1..MAX_DICE) =>
        /\ sim.after[sim.source].dice >= 1
        /\ sim.after[sim.target].dice <= MAX_DICE
        /\ sim.after[sim.source].dice + sim.after[sim.target].dice
              = sim.before[sim.source].dice + sim.before[sim.target].dice

DiceInRange(b) == \A a \in Areas(b) : b[a].dice \in 1..MAX_DICE

\* C3: every area of every board the search holds, after any sequence of
\* simulated candidate actions, has between 1 and 8 dice.
C3_DiceStayInRange ==
    /\ \A i \in 1..Len(stack) : DiceInRange(stack[i].board)
    /\ sim.called => DiceInRange(sim.after)

\* C3's case: a board deep in the search, reached by a simulated transfer
\* that followed other simulated actions.
C3_Witness ==
    /\ Len(stack) >= 4
    /\ Simulated(TRANSFER_COMMAND)
    /\ Top.board = sim.after
    /\ sim.before # stack[1].board

\* C4: the generator's list holds Attack(source, target) for every possible
\* attack of the player whose source has 8 dice.
C4_MaxDiceSourceAlwaysAttacks ==
    gen.called =>
        \A i \in 1..Len(PossibleAttacks(gen.board, gen.player)) :
            LET pair == PossibleAttacks(gen.board, gen.player)[i]
            IN gen.board[pair[1]].dice = MAX_DICE =>
                  <<pair[1], pair[2], BATTLE_COMMAND>> \in SeqToSet(gen.turns)

\* C5: when ai_turn has returned, on the search path and on the fallback
\* path, every area of the host's board has the owner and the dice it had
\* when ai_turn was called.
C5_HostBoardUnchanged == pc = "done" => board = board_before

\* C5's case: the fallback path returned a transfer, so the probe wrote
\* to the host's board and restored it.
C5_Witness ==
    /\ pc = "done"
    /\ ret = NoRet
    /\ gen.called
    /\ \E i \in 1..Len(gen.turns) : gen.turns[i][3] = TRANSFER_COMMAND

\* C6: the search never fails: the heuristic evaluator is never asked for
\* a player that owns no area of the evaluated board.
C6_SearchNeverFails == pc # "failed"

\* C7: no two entries of the generator's ranked list are the same
\* (source, target, kind).
C7_NoDuplicateCandidates ==
    gen.called =>
        \A i, j \in 1..Len(gen.turns) : i # j => gen.turns[i] # gen.turns[j]

\* C8: every candidate the generator returns has a source area owned by
\* the requesting player on the board it was asked about.
C8_SourcesOwnedByPlayer ==
    gen.called =>
        \A i \in 1..Len(gen.turns) : gen.board[gen.turns[i][1]].owner = gen.player

\* C8's case: a list with an attack and a transfer.
C8_Witness ==
    /\ gen.called
    /\ \E i \in 1..Len(gen.turns) : gen.turns[i][3] = BATTLE_COMMAND
    /\ \E i \in 1..Len(gen.turns) : gen.turns[i][3] = TRANSFER_COMMAND

\* C9: a chosen Attack becomes a battle command; a chosen Transfer becomes
\* a transfer command when the transfers made this turn are fewer than
\* max_transfers, and EndTurn otherwise.
C9_CommandTranslation ==
    (pc = "done" /\ ret # NoRet /\ ret.turn # None) =>
        IF ret.turn[3] = BATTLE_COMMAND
        THEN command = [type |-> "battle", source |-> ret.turn[1], target |-> ret.turn[2]]
        ELSE IF transfer_count_this_turn < max_transfers
        THEN command = [type |-> "transfer", source |-> ret.turn[1], target |-> ret.turn[2]]
        ELSE command = [type |-> "end_turn"]

\* C9's case: a Transfer chosen when the count equals the cap.
C9_Witness ==
    /\ pc = "done"
    /\ ret # NoRet
    /\ ret.turn # None
    /\ ret.turn[3] = TRANSFER_COMMAND
    /\ transfer_count_this_turn = max_transfers
    /\ command = [type |-> "end_turn"]

\* (rotation length, depth) of the call i of the stack, when it was entered.
Measure(i) == <<stack[i].len0, stack[i].depth>>
LexLess(m, n) == m[1] < n[1] \/ (m[1] = n[1] /\ m[2] < n[2])

\* C10: every call of __max_n made by a call of __max_n has a smaller
\* (rotation length, depth), in lexicographic order, than its caller; so
\* the calls nest no deeper than the pairs there are.
C10_CallsDecreaseMeasure ==
    /\ \A i \in 2..Len(stack) : LexLess(Measure(i), Measure(i - 1))
    /\ Len(stack) <= (Len(players_order) + 1) * (MAX_N_DEPTH + 1)

\* C10's case: depth was reset to the full depth after a player was
\* consumed, deep in the recursion.
C10_Witness ==
    \E i \in 2..Len(stack) :
        /\ stack[i - 1].depth = 0
        /\ stack[i].depth = MAX_N_DEPTH
        /\ stack[i].len0 = stack[i - 1].len0 - 1
        /\ Len(stack) > i + 2

\* The place of a player in the table order.
IndexOf(order, player) == CHOOSE i \in 1..Len(order) : order[i] = player

\* The table order read cyclically from a player on.
TableOrderFrom(order, player) ==
    [i \in 1..Len(order) |->
        order[((IndexOf(order, player) + i - 2) % Len(order)) + 1]]

\* C11: the rotation ai_turn hands to the search holds every player of
\* players_order once, the acting AI at the right end, where the search
\* consumes, and the others behind it in table order read cyclically from
\* the AI; what is left of the rotation during the search is always what
\* remains of that order, and the first call acts for the acting AI.
C11_RotationInTableOrder ==
    pc = "search" =>
        /\ Len(players_names) <= Len(players_order)
        /\ \A i \in 1..Len(players_names) :
              players_names[i] =
                  TableOrderFrom(players_order, player_name)[Len(players_order) + 1 - i]
        /\ stack # <<>> =>
              /\ stack[1].len0 = Len(players_order)
              /\ stack[1].player \in {0, player_name}
              /\ (Len(stack) = 1 /\ Top.pc = "entry") =>
                    (Len(players_names) = stack[1].len0
                     /\ Last(players_names) = player_name)

\* C11's case: three players, the AI in the middle of the table, and the
\* search has consumed the AI and the player after it.
C11_Witness ==
    /\ pc = "search"
    /\ stack # <<>>
    /\ Len(players_order) = 3
    /\ player_name = players_order[2]
    /\ players_names = <<players_order[1]>>

C12_FallbackEmpty ==
    /\ pc = "done"
    /\ ret = NoRet
    /\ gen.called
    /\ gen.turns = <<>>
    /\ command = [type |-> "end_turn"]

\* Every area of the board is the player's and they form one region group.
OneRegionOnePlayer(b, p) ==
    /\ \A a \in Areas(b) : b[a].owner = p
    /\ Len(GetPlayersRegions(b, p)) = 1

\* C13: the search, started on a board that is one region group of one
\* player with that player alone as the rotation, returns no action and a
\* heuristic map whose keys are exactly that player.
C13_OneRegionBoard ==
    (/\ pc = "search"
     /\ stack = <<>>
     /\ ret # NoRet
     /\ players_order = <<player_name>>
     /\ OneRegionOnePlayer(board, player_name)) =>
        /\ ret.turn = None
        /\ DOMAIN ret.heur = {player_name}

\* C13's case: the search has returned on such a board.
C13_Witness ==
    /\ pc = "search"
    /\ stack = <<>>
    /\ ret # NoRet
    /\ players_order = <<player_name>>
    /\ OneRegionOnePlayer(board, player_name)
    /\ board[2].dice = MAX_DICE

\* The board b with the dice of the assignment d.
WithDice(b, d) == [a \in DOMAIN b |-> [owner |-> b[a].owner, dice |-> d[a]]]

\* The largest of the sizes of the region groups of a player.
LargestGroup(b, p) ==
    SetMax({Cardinality(GetPlayersRegions(b, p)[i]) :
               i \in 1..Len(GetPlayersRegions(b, p))})

\* The score the evaluator is said to give: the player's dice, 5 for every
\* area of its region groups, 50 for every area of its largest group.
ScoreOf(b, p) ==
    GetPlayerDice(b, p) + 5 * Len(GetPlayerAreas(b, p)) + 50 * LargestGroup(b, p)

\* No player evaluated on b with at least as many dice on b2 scores less on b2.
NoLessOn(b, heur, b2) ==
    \A p \in DOMAIN heur :
        GetPlayerDice(b2, p) >= GetPlayerDice(b, p) =>
            GetPlayersHeuristics(DOMAIN heur, b2)[p] >= heur[p]

\* C14: the score of every evaluated player is its total dice, plus 5
\* times the sum of the sizes of its region groups, plus 50 times the size
\* of its largest region group; and on every board with the same owners
\* and adjacency on which the player has no fewer dice, the player's score
\* is no smaller.
C14_HeuristicMonotonicInDice ==
    pc = "evaluated" =>
        /\ \A p \in DOMAIN ret.heur : ret.heur[p] = ScoreOf(board, p)
        /\ \A d \in [DOMAIN board -> DiceVals] :
              NoLessOn(board, ret.heur, WithDice(board, d))

\* C14's case: a player with two region groups of different sizes was
\* evaluated on a board where its dice can grow.
C14_Witness ==
    /\ pc = "evaluated"
    /\ Len(GetPlayersRegions(board, player_name)) = 2
    /\ Len(GetPlayerAreas(board, player_name)) = 3
    /\ GetPlayerDice(board, player_name) = 3
    /\ Cardinality(DOMAIN ret.heur) = 2

\* C15: at a node with depth > 0, the call made for every candidate is
\* entered with the rotation the node was entered with, and between two
\* candidates the rotation is the one the node was entered with.
C15_SiblingsSeeSameRotation ==
    /\ \A i \in 1..(Len(stack) - 1) :
          stack[i].pc = "await" => stack[i + 1].len0 = stack[i].len0
    /\ (Searching /\ Top.pc = "loop") => Len(players_names) = Top.len0

\* The call i of the stack was entered with depth 0 and a rotation of 2
\* players that both own an area of its board.
DepthZeroTwoPlayers(i) ==
    /\ stack[i].depth = 0
    /\ stack[i].len0 = 2
    /\ \A k \in 1..2 :
          GetPlayerAreas(stack[i].board,
                         BuildRotation(players_order, player_name)[k]) # <<>>

\* The call i removed one player before it called on.
RemovesOnePlayer(i) == i < Len(stack) => stack[i + 1].len0 = stack[i].len0 - 1

\* The calls nested in the call i are no more than two players can make.
NestsBoundedly(i) == Len(stack) - i <= 2 * (MAX_N_DEPTH + 2)

\* What the call i returns has an entry for every owner of the board it
\* was computed from.
ReturnsAllLiving(i) ==
    (i = Len(stack) /\ stack[i].pc = "return" /\ ret # NoRet) =>
        {ret.evaluated[a].owner : a \in Areas(ret.evaluated)} \subseteq DOMAIN ret.heur

\* C16: a call of the search with depth 0 and a rotation of 2 players that
\* both own an area removes exactly one player of the rotation itself, has
\* boundedly many calls nested in it, never fails, and returns a heuristic
\* map with an entry for every player that owns an area of the evaluated
\* board.
C16_DepthZeroTwoPlayers ==
    \A i \in 1..Len(stack) :
        DepthZeroTwoPlayers(i) =>
            /\ RemovesOnePlayer(i)
            /\ NestsBoundedly(i)
            /\ ReturnsAllLiving(i)
            /\ pc # "failed"

\* The candidates of the frame f whose call returned a map that defines
\* the heuristic of f's player.
Defining(f) == {i \in 1..Len(f.subs) : f.player \in DOMAIN f.subs[i]}

\* The earliest of the candidates of Defining(f) with the greatest value.
Earliest(f) ==
    CHOOSE i \in Defining(f) :
        \A j \in Defining(f) :
            \/ f.subs[i][f.player] > f.subs[j][f.player]
            \/ f.subs[i][f.player] = f.subs[j][f.player] /\ i <= j

\* Every candidate of the running call was explored.
LoopDone == Searching /\ Top.pc = "loop" /\ Top.idx > Len(Top.turns)

\* C17: a node with depth > 0 and candidates has at most depth of them;
\* when all were explored it returns the earliest candidate among those
\* whose call returned a map defining the node's player and giving it the
\* greatest value, with that call's map; and it returns no action with an
\* empty map exactly when no candidate's map defines the player.
C17_BestCandidateReturned ==
    [][LoopDone =>
          /\ Top.depth > 0
          /\ Len(Top.turns) \in 1..Top.depth
          /\ Len(Top.subs) = Len(Top.turns)
          /\ IF Defining(Top) = {}
             THEN ret'.turn = None /\ ret'.heur = EmptyHeuristics
             ELSE /\ ret'.turn = Top.turns[Earliest(Top)]
                  /\ ret'.heur = Top.subs[Earliest(Top)]
                  /\ ret'.turn # None
                  /\ ret'.heur # EmptyHeuristics]_vars

\* C17's case: a node whose player is defined by two candidates' maps with
\* the same value, and a third candidate was explored as well.
C17_Witness ==
    /\ LoopDone
    /\ Len(Top.turns) >= 2
    /\ \E i, j \in Defining(Top) :
          i < j /\ Top.subs[i][Top.player] = Top.subs[j][Top.player]

\* A node all of whose candidates' maps leave its player undefined.
C17_NoneDefined == LoopDone /\ Defining(Top) = {}

\* A node whose later candidate wins with a greater value.
C17_LaterWins == LoopDone /\ Defining(Top) # {} /\ Earliest(Top) > 1

\* The Transfer candidates of a list of candidates.
TransfersOf(turns) == SelectSeq(turns, LAMBDA t : t[3] = TRANSFER_COMMAND)

\* C18: in a run of the generator whose transfer counter starts no higher
\* than max_transfers, the counter ends no higher than max_transfers (it
\* only grows, so it never is higher), and the Transfer candidates
\* returned are no more than max_transfers minus the starting count.
C18_TransferCounterWithinCap ==
    (gen.called /\ gen.count0 <= max_transfers) =>
        /\ gen.count <= max_transfers
        /\ Len(TransfersOf(gen.turns)) <= max_transfers - gen.count0

\* What the last simulated action left alone: the areas of the board,
\* every area but source and target, the owner of the source and, for a
\* Transfer, the owner of the target.
SimulationFrame ==
    sim.called =>
        /\ DOMAIN sim.after = DOMAIN sim.before
        /\ \A a \in DOMAIN sim.before \ {sim.source, sim.target} :
              sim.after[a] = sim.before[a]
        /\ sim.after[sim.source].owner = sim.before[sim.source].owner
        /\ sim.kind = TRANSFER_COMMAND =>
              \A a \in DOMAIN sim.before : sim.after[a].owner = sim.before[a].owner

\* C19: a simulated action changes only the dice of its source and target
\* and, for an Attack, the owner of its target; a simulated Transfer
\* changes no owner; and no step changes the adjacency of the areas.
C19_SimulationChangesOnlyItsAreas ==
    /\ []SimulationFrame
    /\ [][adj' = adj]_vars

\* C19's case: a simulated Transfer that moved dice, after a simulated
\* Attack had changed an owner on the same board.
C19_Witness ==
    /\ Simulated(TRANSFER_COMMAND)
    /\ sim.after[sim.target].dice > sim.before[sim.target].dice
    /\ \E a \in DOMAIN sim.before : sim.before[a].owner # board[a].owner

\* The Transfer (source, target) is well formed for the player on b.
WellFormedTransfer(b, player, source, target) ==
    /\ source # target
    /\ target \in adj[source]
    /\ b[source].owner = player
    /\ b[target].owner = player
    /\ ~IsAtBorder(b, source)
    /\ b[source].dice > 1
    /\ b[target].dice < MAX_DICE

\* C20: every Transfer candidate the generator returns has, on the board
\* the generator was asked about, distinct adjacent source and target both
\* owned by the requesting player, a source that is not a border area and
\* has more than 1 die, and a target with fewer than 8 dice.
C20_TransfersWellFormed ==
    gen.called =>
        \A i \in 1..Len(gen.turns) :
            gen.turns[i][3] = TRANSFER_COMMAND =>
                WellFormedTransfer(gen.board, gen.player,
                                   gen.turns[i][1], gen.turns[i][2])

\* C20's case: a list with a chain transfer, whose target is no border
\* area, and a direct transfer, whose target is one.
C20_Witness ==
    /\ gen.called
    /\ \E i \in 1..Len(gen.turns) :
          gen.turns[i][3] = TRANSFER_COMMAND /\ ~IsAtBorder(gen.board, gen.turns[i][2])
    /\ \E i \in 1..Len(gen.turns) :
          gen.turns[i][3] = TRANSFER_COMMAND /\ IsAtBorder(gen.board, gen.turns[i][2])

====
